---- MODULE Spec2Model ----
(***************************************************************************)
(* Money_Tracker (src/main.py): the purchase ledger, the per-category      *)
(* monthly budget table, the carry-forward walk, the monthly summary and   *)
(* the Flask routes that call them.                                        *)
(*                                                                         *)
(* Datetimes are integers: DT(y, m, d) counts the instants since year 0,   *)
(* with DaysPerMonth instants in every month (the first instant of the     *)
(* month and the later ones).  Money is integer valued (the floats of the  *)
(* program take only whole values here).  The two tables MonthlyBudget     *)
(* and Purchase are bags of rows (a row's surrogate id is left out, so a   *)
(* duplicate row is a second copy in the bag).                             *)
(***************************************************************************)
EXTENDS Integers, Sequences, FiniteSets, Bags, TLC

\* ------------------------------------------------------------------ bounds
\* the number of months the clock runs through
MaxMonths == 3
\* the number of purchase rows the ledger holds at most
MaxPurchases == 2

\* ------------------------------------------------------- program constants
MonthsPerYear == 12
\* .get(name, 9999) in sort_categories
NoOrderIndex == 9999
\* the value of a query's scalar() over no rows (None)
None == -1

Days == {1, 2}
DaysPerMonth == Cardinality(Days)

\* ---------------------------------------------------------------- datetimes
DT(y, m, d) == ((y * MonthsPerYear) + (m - 1)) * DaysPerMonth + (d - 1)
Year(dt) == (dt \div DaysPerMonth) \div MonthsPerYear
Month(dt) == ((dt \div DaysPerMonth) % MonthsPerYear) + 1
Day(dt) == (dt % DaysPerMonth) + 1

\* the first request is served in November of year 0
StartTime == DT(0, 11, 1)
EndTime == StartTime + (MaxMonths * DaysPerMonth) - 1

\* month_start without the replace: the instant itself
month_start_NotNormalised(dt) == dt

\* dt.replace(day=1, hour=0, ...)
month_start(dt) == DT(Year(dt), Month(dt), 1)

next_month_start(dt) ==
    IF Month(dt) = MonthsPerYear
    THEN DT(Year(dt) + 1, 1, 1)
    ELSE DT(Year(dt), Month(dt) + 1, 1)

\* ------------------------------------------------------------ configuration
\* settings.json: "categories" maps a name to its default base, in key order
CfgNames == <<"Groceries">>
CfgCategories == ("Groceries" :> 400)
AdminPin == "1234"

\* load_cfg()["categories"].get(name, 0.0)
CfgDefault(name) ==
    IF name \in DOMAIN CfgCategories THEN CfgCategories[name] ELSE 0

\* form inputs
Amounts == {350, 500}
BudgetVals == {-100}
Pins == {"none", AdminPin, "0000"}

\* ------------------------------------------------------------------- state
VARIABLES
    categories,   \* the Category table: a set of rows [id, name, is_active]
    budgets,      \* the MonthlyBudget table: a bag of rows
    purchases,    \* the Purchase table: a bag of rows
    now,          \* datetime.now(timezone.utc)
    is_admin,     \* session["is_admin"] of the one browser session
    workers       \* the position of each concurrent GET /admin request

vars == <<categories, budgets, purchases, now, is_admin, workers>>

\* ------------------------------------------------------------------ tables
BudgetRow(cat_id, mstart, base) ==
    [category_id |-> cat_id, month_start |-> mstart, base_budget |-> base]

PurchaseRow(cat_id, amount, ts) ==
    [category_id |-> cat_id, amount |-> amount, ts |-> ts]

\* the minimum coalesced to the epoch over no rows
SetMin_Epoch(S) ==
    IF S = {} THEN 0 ELSE CHOOSE x \in S : \A y \in S : x <= y

RECURSIVE SetMin(_)
SetMin(S) ==
    IF S = {} THEN None
    ELSE LET x == CHOOSE v \in S : TRUE
             r == SetMin(S \ {x})
         IN  IF r = None \/ x < r THEN x ELSE r

RECURSIVE SumAmounts(_, _)
SumAmounts(P, rows) ==
    IF rows = {} THEN 0
    ELSE LET r == CHOOSE v \in rows : TRUE
         IN  (r.amount * CopiesIn(r, P)) + SumAmounts(P, rows \ {r})

\* the sum over the open-start interval (start_dt, end_dt)
month_spend_for_category_OpenStart(P, cat_id, start_dt, end_dt) ==
    SumAmounts(P, {r \in BagToSet(P) :
                      /\ r.category_id = cat_id
                      /\ r.ts > start_dt
                      /\ r.ts < end_dt})

\* the sum over the closed interval [start_dt, end_dt]
month_spend_for_category_ClosedEnd(P, cat_id, start_dt, end_dt) ==
    SumAmounts(P, {r \in BagToSet(P) :
                      /\ r.category_id = cat_id
                      /\ r.ts >= start_dt
                      /\ r.ts <= end_dt})

\* func.coalesce(func.sum(Purchase.amount), 0.0) over [start_dt, end_dt)
month_spend_for_category(P, cat_id, start_dt, end_dt) ==
    SumAmounts(P, {r \in BagToSet(P) :
                      /\ r.category_id = cat_id
                      /\ r.ts >= start_dt
                      /\ r.ts < end_dt})

\* MonthlyBudget.query.filter_by(category_id, month_start)
BudgetsAt(B, cat_id, mstart) ==
    {r \in BagToSet(B) : r.category_id = cat_id /\ r.month_start = mstart}

\* uniq_cat_month: UniqueConstraint('category_id', 'month_start')
UniqueViolation(B, row) ==
    BudgetsAt(B, row.category_id, row.month_start) # {}

\* the insert into a table without uniq_cat_month
DbInsertBudget_NoConstraint(B, row) == B (+) SetToBag({row})

\* the insert without db.session.add / commit: nothing is persisted
DbInsertBudget_NotPersisted(B, row) == B

\* db.session.add(mb); db.session.commit(): the insert is rejected
\* (IntegrityError) when it breaks uniq_cat_month
DbInsertBudget(B, row) ==
    IF UniqueViolation(B, row) THEN B ELSE B (+) SetToBag({row})

\* .filter(category_id == cat, month_start <= cur)
\* .order_by(month_start.desc()).first(): None is <<>>
LatestBudgetOnOrBefore(B, cat_id, cur) ==
    LET rows == {r \in BagToSet(B) :
                     r.category_id = cat_id /\ r.month_start <= cur}
    IN  IF rows = {} THEN <<>>
        ELSE <<CHOOSE r \in rows :
                 \A q \in rows : q.month_start <= r.month_start>>

\* an upsert: the row found has its base overwritten with default_base
get_or_create_monthly_budget_Upsert(B, cat, mstart, default_base) ==
    LET found == BudgetsAt(B, cat.id, mstart)
        row == BudgetRow(cat.id, mstart, default_base)
    IN  IF found # {}
        THEN [mb |-> row,
              budgets |-> (B (-) [r \in found |-> CopiesIn(r, B)])
                          (+) SetToBag({row})]
        ELSE [mb |-> row, budgets |-> DbInsertBudget(B, row)]

\* the row created without base_budget=default_base: the column default 0.0
get_or_create_monthly_budget_ColumnDefault(B, cat, mstart, default_base) ==
    LET found == BudgetsAt(B, cat.id, mstart)
    IN  IF found # {}
        THEN [mb |-> CHOOSE r \in found : TRUE, budgets |-> B]
        ELSE LET row == BudgetRow(cat.id, mstart, 0)
             IN  [mb |-> row, budgets |-> DbInsertBudget(B, row)]

get_or_create_monthly_budget(B, cat, mstart, default_base) ==
    LET found == BudgetsAt(B, cat.id, mstart)
    IN  IF found # {}
        THEN [mb |-> CHOOSE r \in found : TRUE, budgets |-> B]
        ELSE LET row == BudgetRow(cat.id, mstart, default_base)
             IN  [mb |-> row, budgets |-> DbInsertBudget(B, row)]

\* func.min(Purchase.ts) of the category
FirstPurchaseTs(P, cat_id) ==
    SetMin({r.ts : r \in {q \in BagToSet(P) : q.category_id = cat_id}})

\* func.max in place of func.min
FirstBudgetTs_Latest(B, cat_id) ==
    LET S == {r.month_start : r \in {q \in BagToSet(B) : q.category_id = cat_id}}
    IN  IF S = {} THEN None ELSE CHOOSE x \in S : \A y \in S : y <= x

\* func.min(MonthlyBudget.month_start) of the category
FirstBudgetTs(B, cat_id) ==
    SetMin({r.month_start : r \in {q \in BagToSet(B) : q.category_id = cat_id}})

\* first_purchase_ts or first_budget_ts
WalkStart(B, P, cat_id) ==
    LET first_purchase_ts == FirstPurchaseTs(P, cat_id)
        first_budget_ts == FirstBudgetTs(B, cat_id)
    IN  month_start(IF first_purchase_ts # None
                    THEN first_purchase_ts ELSE first_budget_ts)

\* the while loop of cumulative_carry_until
RECURSIVE CarryWalk(_, _, _, _, _, _)
CarryWalk(B, P, cat, cur, up_to_month_start, carry) ==
    IF cur < up_to_month_start
    THEN LET nxt == next_month_start(cur)
             prev_mb == LatestBudgetOnOrBefore(B, cat.id, cur)
             got == IF prev_mb # <<>>
                    THEN get_or_create_monthly_budget(B, cat, cur,
                                                      prev_mb[1].base_budget)
                    ELSE get_or_create_monthly_budget(B, cat, cur,
                                                      CfgDefault(cat.name))
             spent == month_spend_for_category(P, cat.id, cur, nxt)
         IN  CarryWalk(got.budgets, P, cat, nxt, up_to_month_start,
                       carry + (got.mb.base_budget - spent))
    ELSE [carry |-> carry, budgets |-> B]

cumulative_carry_until(B, P, cat, up_to_month_start) ==
    IF FirstPurchaseTs(P, cat.id) = None /\ FirstBudgetTs(B, cat.id) = None
    THEN [carry |-> 0, budgets |-> B]
    ELSE CarryWalk(B, P, cat, WalkStart(B, P, cat.id), up_to_month_start, 0)

\* max(0.0, x) dropped: x itself
Max_NoFloor(a, b) == b

\* max(a, b) of lines 108 and 112
Max(a, b) == IF a >= b THEN a ELSE b

\* spent / effective * 100 without the test of effective_budget <= 0
Pct_Unguarded(spent, effective_budget) ==
    [num |-> spent * 100, den |-> effective_budget]

\* spent / effective * 100 as the fraction num/den
Pct(spent, effective_budget) ==
    IF effective_budget <= 0
    THEN [num |-> 0, den |-> 1]
    ELSE [num |-> spent * 100, den |-> effective_budget]

current_month_summary(B, P, cat, now_utc) ==
    LET cur_start == month_start(now_utc)
        nxt_start == next_month_start(cur_start)
        prev_mb == LatestBudgetOnOrBefore(B, cat.id, cur_start)
        got == IF prev_mb # <<>> /\ prev_mb[1].month_start = cur_start
               THEN [mb |-> prev_mb[1], budgets |-> B]
               ELSE get_or_create_monthly_budget(
                        B, cat, cur_start,
                        IF prev_mb # <<>> THEN prev_mb[1].base_budget
                        ELSE CfgDefault(cat.name))
        base_this_month == got.mb.base_budget
        cc == cumulative_carry_until(got.budgets, P, cat, cur_start)
        carry_in == cc.carry
        effective_budget == Max(0, base_this_month + carry_in)
        spent == month_spend_for_category(P, cat.id, cur_start, nxt_start)
        remaining == effective_budget - spent
    IN  [sum |-> [base |-> base_this_month,
                  carry_in |-> carry_in,
                  effective |-> effective_budget,
                  spent |-> spent,
                  remaining |-> remaining,
                  pct |-> Pct(spent, effective_budget),
                  over_by |-> Max(0, -remaining)],
         budgets |-> cc.budgets]

\* ------------------------------------------------------------- categories
CategoryRow(id, name) == [id |-> id, name |-> name, is_active |-> TRUE]

MaxId(C) == IF C = {} THEN 0
            ELSE CHOOSE n \in {c.id : c \in C} : \A c \in C : c.id <= n

\* Category.query.all(): the rows in id order
RECURSIVE QueryAll(_)
QueryAll(C) ==
    IF C = {} THEN <<>>
    ELSE LET c == CHOOSE x \in C : \A y \in C : x.id <= y.id
         IN  <<c>> \o QueryAll(C \ {c})

PREFERRED_ORDER ==
    <<"Home Items", "Kendall's Shopping", "Kevin's Shopping",
      "Eating Out", "Groceries">>

\* order_index.get(c.name, 9999)
OrderIndex(name) ==
    IF \E i \in DOMAIN PREFERRED_ORDER : PREFERRED_ORDER[i] = name
    THEN (CHOOSE i \in DOMAIN PREFERRED_ORDER : PREFERRED_ORDER[i] = name) - 1
    ELSE NoOrderIndex

\* the rank of c.name.lower() among the lowered names of the categories
LowerNameRank(name) ==
    IF name = "Gas" THEN 1 ELSE IF name = "Groceries" THEN 2 ELSE 3

\* the sort key (order_index.get(c.name, 9999), c.name.lower()) compared
SortKeyLess(a, b) ==
    \/ OrderIndex(a.name) < OrderIndex(b.name)
    \/ /\ OrderIndex(a.name) = OrderIndex(b.name)
       /\ LowerNameRank(a.name) < LowerNameRank(b.name)

RECURSIVE sort_categories(_)
sort_categories(C) ==
    IF C = {} THEN <<>>
    ELSE LET c == CHOOSE x \in C : \A y \in C \ {x} : ~SortKeyLess(y, x)
         IN  <<c>> \o sort_categories(C \ {c})

\* lines 173-178: a Category row for every configured name that has none
RECURSIVE AddConfigured(_, _)
AddConfigured(C, i) ==
    IF i > Len(CfgNames) THEN C
    ELSE IF CfgNames[i] \in {c.name : c \in C}
         THEN AddConfigured(C, i + 1)
         ELSE AddConfigured(C \cup {CategoryRow(MaxId(C) + 1, CfgNames[i])},
                            i + 1)

\* lines 181-183: a period of the current month for every category,
\* seeded with the configured default
RECURSIVE SeedAll(_, _, _, _)
SeedAll(B, cats, i, cur_start) ==
    IF i > Len(cats) THEN B
    ELSE SeedAll(get_or_create_monthly_budget(
                     B, cats[i], cur_start, CfgDefault(cats[i].name)).budgets,
                 cats, i + 1, cur_start)

\* the rows of the index page: current_month_summary of every category
RECURSIVE IndexRows(_, _, _, _, _, _)
IndexRows(B, P, cats, i, now_utc, rows) ==
    IF i > Len(cats) THEN [rows |-> rows, budgets |-> B]
    ELSE LET r == current_month_summary(B, P, cats[i], now_utc)
         IN  IndexRows(r.budgets, P, cats, i + 1, now_utc,
                       rows @@ (cats[i].id :> r.sum))

\* the save loop writing the submitted base to every period of the
\* category, not to the current month's only
RECURSIVE SaveAll_EveryMonth(_, _, _, _, _)
SaveAll_EveryMonth(B, cats, i, cur_start, form) ==
    IF i > Len(cats) THEN B
    ELSE IF cats[i].id \in DOMAIN form
         THEN LET got == get_or_create_monthly_budget(B, cats[i], cur_start, 0)
                  rows == {r \in BagToSet(got.budgets) :
                               r.category_id = cats[i].id}
              IN  SaveAll_EveryMonth(
                      (got.budgets (-) [r \in rows |-> CopiesIn(r, got.budgets)])
                          (+) SetToBag({[r EXCEPT !.base_budget = form[cats[i].id]]
                                           : r \in rows}),
                      cats, i + 1, cur_start, form)
         ELSE SaveAll_EveryMonth(B, cats, i + 1, cur_start, form)

\* the save loop of admin(): the submitted base of every category in the form
RECURSIVE SaveAll(_, _, _, _, _)
SaveAll(B, cats, i, cur_start, form) ==
    IF i > Len(cats) THEN B
    ELSE IF cats[i].id \in DOMAIN form
         THEN LET got == get_or_create_monthly_budget(B, cats[i], cur_start, 0)
                  new == [got.mb EXCEPT !.base_budget = form[cats[i].id]]
              IN  SaveAll((got.budgets (-) SetToBag({got.mb}))
                              (+) SetToBag({new}),
                          cats, i + 1, cur_start, form)
         ELSE SaveAll(B, cats, i + 1, cur_start, form)

Idle == [pc |-> "idle"]
Workers == {1, 2}

\* --------------------------------------------------------------- ytd_totals
\* the same loop with the start of the current month in place of
\* datetime(now_utc.year, 1, 1)
ytd_totals_SinceMonthStart(C, P, now_utc, active_only) ==
    LET start_of_year == month_start(now_utc)
        cats == sort_categories(IF active_only
                                THEN {c \in C : c.is_active} ELSE C)
        RECURSIVE Loop(_, _, _)
        Loop(i, rows, overall) ==
            IF i > Len(cats) THEN [rows |-> rows, overall |-> overall]
            ELSE LET spent == month_spend_for_category(
                                  P, cats[i].id, start_of_year, now_utc)
                 IN  Loop(i + 1,
                          Append(rows, [cat |-> cats[i], spent |-> spent]),
                          overall + spent)
    IN  Loop(1, <<>>, 0)

\* ytd_totals(now_utc, active_only): (rows, overall) over the categories C
\* and the ledger P
ytd_totals(C, P, now_utc, active_only) ==
    LET start_of_year == DT(Year(now_utc), 1, 1)
        cats == sort_categories(IF active_only
                                THEN {c \in C : c.is_active} ELSE C)
        RECURSIVE Loop(_, _, _)
        Loop(i, rows, overall) ==
            IF i > Len(cats) THEN [rows |-> rows, overall |-> overall]
            ELSE LET spent == month_spend_for_category(
                                  P, cats[i].id, start_of_year, now_utc)
                 IN  Loop(i + 1,
                          Append(rows, [cat |-> cats[i], spent |-> spent]),
                          overall + spent)
    IN  Loop(1, <<>>, 0)

\* ------------------------------------------------------------------- Init
\* the module's start-up code run at StartTime on an empty database
Init ==
    /\ categories = AddConfigured({}, 1)
    /\ budgets = SeedAll(EmptyBag, QueryAll(AddConfigured({}, 1)), 1,
                         month_start(StartTime))
    /\ purchases = EmptyBag
    /\ now = StartTime
    /\ is_admin = FALSE
    /\ workers = [w \in Workers |-> Idle]

\* the categories of the configuration with neither periods nor purchases,
\* and an unlocked session: the store the engine's functions are called on
\* before any seeding
InitEngine ==
    /\ categories = AddConfigured({}, 1)
    /\ budgets = EmptyBag
    /\ purchases = EmptyBag
    /\ now = StartTime
    /\ is_admin = TRUE
    /\ workers = [w \in Workers |-> Idle]

\* ---------------------------------------------------------------- actions
\* time passes
Tick ==
    /\ now < EndTime
    /\ now' = now + 1
    /\ UNCHANGED <<categories, budgets, purchases, is_admin, workers>>

\* the process is restarted: lines 158-183 run again on the database
Startup ==
    /\ categories' = AddConfigured(categories, 1)
    /\ budgets' = SeedAll(budgets, QueryAll(AddConfigured(categories, 1)), 1,
                          month_start(now))
    /\ UNCHANGED <<purchases, now, is_admin, workers>>

\* GET /
Index ==
    LET cats == sort_categories({c \in categories : c.is_active})
        r == IndexRows(budgets, purchases, cats, 1, now, <<>>)
    IN  /\ budgets' = r.budgets
        /\ UNCHANGED <<categories, purchases, now, is_admin, workers>>

\* POST /add
Add(cat_id, name_empty, amount) ==
    /\ BagCardinality(purchases) < MaxPurchases
    /\ IF name_empty
       THEN UNCHANGED purchases
       ELSE purchases' = purchases (+) SetToBag({PurchaseRow(cat_id, amount, now)})
    /\ UNCHANGED <<categories, budgets, now, is_admin, workers>>

\* POST /delete/<pid> of an existing purchase
Delete(p) ==
    /\ purchases' = purchases (-) SetToBag({p})
    /\ UNCHANGED <<categories, budgets, now, is_admin, workers>>

\* POST /edit/<pid> of an existing purchase
Edit(p, cat_id, amount) ==
    /\ purchases' = (purchases (-) SetToBag({p}))
                       (+) SetToBag({[p EXCEPT !.amount = amount,
                                               !.category_id = cat_id]})
    /\ UNCHANGED <<categories, budgets, now, is_admin, workers>>

\* /admin with "and session.get('is_admin')" dropped from line 257: every
\* POST that is not a PIN attempt saves
Admin_SaveUngated(method, pin, form) ==
    LET cur_start == month_start(now)
    IN  IF method = "POST" /\ pin # "none" /\ ~is_admin
        THEN /\ IF pin # AdminPin
                THEN UNCHANGED is_admin
                ELSE is_admin' = TRUE
             /\ UNCHANGED <<categories, budgets, purchases, now, workers>>
        ELSE IF method = "POST"
        THEN /\ budgets' = SaveAll(budgets, QueryAll(categories), 1,
                                   cur_start, form)
             /\ UNCHANGED <<categories, purchases, now, is_admin, workers>>
        ELSE /\ budgets' = SeedAll(budgets, sort_categories(categories), 1,
                                   cur_start)
             /\ UNCHANGED <<categories, purchases, now, is_admin, workers>>

\* /admin: method is "GET" or "POST", pin is "none" when the form has no pin
\* field, form maps the category ids that have a base_<id> field to its value
Admin(method, pin, form) ==
    LET cur_start == month_start(now)
    IN  IF method = "POST" /\ pin # "none" /\ ~is_admin
        THEN /\ IF pin # AdminPin
                THEN UNCHANGED is_admin
                ELSE is_admin' = TRUE
             /\ UNCHANGED <<categories, budgets, purchases, now, workers>>
        ELSE IF method = "POST" /\ is_admin
        THEN /\ budgets' = SaveAll(budgets, QueryAll(categories), 1,
                                   cur_start, form)
             /\ UNCHANGED <<categories, purchases, now, is_admin, workers>>
        ELSE /\ budgets' = SeedAll(budgets, sort_categories(categories), 1,
                                   cur_start)
             /\ UNCHANGED <<categories, purchases, now, is_admin, workers>>

\* GET /logout
Logout ==
    /\ is_admin' = FALSE
    /\ UNCHANGED <<categories, budgets, purchases, now, workers>>

\* GET /totals: the page is computed from the tables and nothing is written
Totals(active_only) ==
    LET r == ytd_totals(categories, purchases, now, active_only)
    IN  UNCHANGED vars

FormCatIds == {c.id : c \in AddConfigured({}, 1)}
Forms == UNION {[S -> BudgetVals] : S \in SUBSET {c.id : c \in AddConfigured({}, 1)}}

Next ==
    \/ Tick
    \/ Startup
    \/ Index
    \/ \E cat_id \in FormCatIds, name_empty \in BOOLEAN, amount \in Amounts :
           Add(cat_id, name_empty, amount)
    \/ \E p \in BagToSet(purchases) : Delete(p)
    \/ \E p \in BagToSet(purchases), cat_id \in FormCatIds, amount \in Amounts :
           Edit(p, cat_id, amount)
    \/ \E method \in {"GET", "POST"}, pin \in Pins, form \in Forms :
           Admin(method, pin, form)
    \/ Logout
    \/ \E active_only \in BOOLEAN : Totals(active_only)

Spec == Init /\ [][Next]_vars

\* ------------------------------------------ the ledger routes on their own
\* int(request.form["category_id"]) of /add and /edit: the id of a category
\* or an id that no Category row has
PostedCatIds == FormCatIds \cup {MaxId(AddConfigured({}, 1)) + 1}

NextLedger ==
    \/ Tick
    \/ \E cat_id \in PostedCatIds, name_empty \in BOOLEAN, amount \in Amounts :
           Add(cat_id, name_empty, amount)
    \/ \E p \in BagToSet(purchases) : Delete(p)
    \/ \E p \in BagToSet(purchases), cat_id \in PostedCatIds, amount \in Amounts :
           Edit(p, cat_id, amount)

SpecLedger == Init /\ [][NextLedger]_vars

\* ------------------------------------------------------ the totals page
\* a category of an earlier configuration: its row stays in the table, it
\* is no key of settings.json, and its is_active column is either value
RetiredName == "Gas"

\* the start-up code run at StartTime on a database that holds the retired
\* category next to the configured ones
InitTotals ==
    /\ \E a \in BOOLEAN :
           categories =
               AddConfigured({}, 1)
               \cup {[CategoryRow(MaxId(AddConfigured({}, 1)) + 1, RetiredName)
                         EXCEPT !.is_active = a]}
    /\ budgets = SeedAll(EmptyBag, QueryAll(categories), 1,
                         month_start(StartTime))
    /\ purchases = EmptyBag
    /\ now = StartTime
    /\ is_admin = FALSE
    /\ workers = [w \in Workers |-> Idle]

NextTotals ==
    \/ Tick
    \/ \E c \in categories, name_empty \in BOOLEAN, amount \in Amounts :
           Add(c.id, name_empty, amount)
    \/ \E p \in BagToSet(purchases) : Delete(p)
    \/ \E p \in BagToSet(purchases), c \in categories, amount \in Amounts :
           Edit(p, c.id, amount)
    \/ \E active_only \in BOOLEAN : Totals(active_only)

SpecTotals == InitTotals /\ [][NextTotals]_vars

\* ------------------------------------------------- calls of the engine
MonthStarts == {StartTime + (k * DaysPerMonth) : k \in 0..MaxMonths}

CallCarry(cat, up_to_month_start) ==
    LET r == cumulative_carry_until(budgets, purchases, cat, up_to_month_start)
    IN  /\ budgets' = r.budgets
        /\ UNCHANGED <<categories, purchases, now, is_admin, workers>>

CallSummary(cat) ==
    LET r == current_month_summary(budgets, purchases, cat, now)
    IN  /\ budgets' = r.budgets
        /\ UNCHANGED <<categories, purchases, now, is_admin, workers>>

NextEngine ==
    \/ Tick
    \/ Startup
    \/ Index
    \/ \E cat_id \in FormCatIds, name_empty \in BOOLEAN, amount \in Amounts :
           Add(cat_id, name_empty, amount)
    \/ \E p \in BagToSet(purchases) : Delete(p)
    \/ \E p \in BagToSet(purchases), cat_id \in FormCatIds, amount \in Amounts :
           Edit(p, cat_id, amount)
    \/ \E method \in {"GET", "POST"}, form \in Forms :
           Admin(method, "none", form)
    \/ \E cat \in categories, t \in MonthStarts : CallCarry(cat, t)
    \/ \E cat \in categories : CallSummary(cat)

SpecEngine == InitEngine /\ [][NextEngine]_vars

\* ------------------------------------- concurrent GET /admin requests
\* Flask's development server handles each request on a thread of its own:
\* the listing loop of admin() (lines 271-274) split at its database
\* statements, the query of get_or_create_monthly_budget (line 64) and its
\* insert and commit (lines 66-68).
Advance(req) ==
    IF req.i = Len(req.cats) THEN Idle
    ELSE [req EXCEPT !.pc = "query", !.i = req.i + 1]

AdminGetBegin(w) ==
    /\ workers[w].pc \in {"idle", "failed"}
    /\ workers' = [workers EXCEPT ![w] =
           IF sort_categories(categories) = <<>> THEN Idle
           ELSE [pc |-> "query", i |-> 1,
                 cats |-> sort_categories(categories),
                 cur_start |-> month_start(now)]]
    /\ UNCHANGED <<categories, budgets, purchases, now, is_admin>>

AdminGetQuery(w) ==
    /\ workers[w].pc = "query"
    /\ LET req == workers[w]
           found == BudgetsAt(budgets, req.cats[req.i].id, req.cur_start)
       IN  workers' = [workers EXCEPT ![w] =
               IF found # {} THEN Advance(req)
               ELSE [req EXCEPT !.pc = "insert"]]
    /\ UNCHANGED <<categories, budgets, purchases, now, is_admin>>

\* the commit raises IntegrityError when the insert is rejected, and the
\* request ends there
AdminGetInsert(w) ==
    /\ workers[w].pc = "insert"
    /\ LET req == workers[w]
           cat == req.cats[req.i]
           row == BudgetRow(cat.id, req.cur_start, CfgDefault(cat.name))
       IN  /\ budgets' = DbInsertBudget(budgets, row)
           /\ workers' = [workers EXCEPT ![w] =
                  IF UniqueViolation(budgets, row)
                  THEN [pc |-> "failed", row |-> row]
                  ELSE Advance(req)]
    /\ UNCHANGED <<categories, purchases, now, is_admin>>

NextRace ==
    \/ Tick
    \/ Index
    \/ \E w \in Workers : AdminGetBegin(w)
    \/ \E w \in Workers : AdminGetQuery(w)
    \/ \E w \in Workers : AdminGetInsert(w)

SpecRace == Init /\ [][NextRace]_vars

\* ================================================================ claims
\* what the claims are stated with: the months, and the spend and the base
\* of a month read off the tables without the code's queries
\* the month-start instant of the month of dt
MonthOf(dt) == dt - (dt % DaysPerMonth)

\* the month-start k months after the month-start m
AddMonths(m, k) == m + (k * DaysPerMonth)

\* the instants of the month that starts at m
InstantsOf(m) == {m + (d - 1) : d \in Days}

PurchasesOf(c) == {r \in BagToSet(purchases) : r.category_id = c.id}
PeriodsOf(c) == {r \in BagToSet(budgets) : r.category_id = c.id}

\* the number of rows of B for (cat_id, mstart)
RowCount(B, cat_id, mstart) ==
    LET rows == BudgetsAt(B, cat_id, mstart)
        RECURSIVE Cnt(_)
        Cnt(S) == IF S = {} THEN 0
                  ELSE LET r == CHOOSE v \in S : TRUE
                       IN  CopiesIn(r, B) + Cnt(S \ {r})
    IN  Cnt(rows)

\* the sum of the category's purchases whose instant lies in month m
SpendIn(c, m) == SumAmounts(purchases, {r \in PurchasesOf(c) : r.ts \in InstantsOf(m)})

\* the base the schedule gives month m: that of the most recent period at
\* or before m, the configured default when there is none
ScheduledBase(c, m) ==
    LET rows == {r \in PeriodsOf(c) : r.month_start <= m}
    IN  IF rows = {} THEN CfgDefault(c.name)
        ELSE (CHOOSE r \in rows : \A q \in rows : q.month_start <= r.month_start).base_budget

\* the earlier of the month of the first purchase and the month of the
\* earliest period (None when the category has neither)
ActivityStart(c) ==
    SetMin({MonthOf(r.ts) : r \in PurchasesOf(c)}
           \cup {r.month_start : r \in PeriodsOf(c)})

\* the sum of base(m) - spend(m) over the k months from m on
RECURSIVE SumFrom(_, _, _)
SumFrom(c, m, k) ==
    IF k = 0 THEN 0
    ELSE (ScheduledBase(c, m) - SpendIn(c, m)) + SumFrom(c, AddMonths(m, 1), k - 1)

\* the number of months from month a to month b (0 when b is not later)
MonthsBetween(a, b) == IF b > a THEN (b - a) \div DaysPerMonth ELSE 0

Carry(c, t) == cumulative_carry_until(budgets, purchases, c, t)

\* ---------------------------------------------------------------- C1
\* C1: cumulative_carry_until(cat, T) is the sum of base(m) - spend(m) over
\* the months from the EARLIER of the first purchase's month and the earliest
\* period's month up to but excluding T.
C1_WalkStartsAtEarlierOfPurchaseAndPeriod ==
    \A c \in categories, t \in MonthStarts :
        ActivityStart(c) # None =>
            Carry(c, t).carry =
                SumFrom(c, ActivityStart(c), MonthsBetween(ActivityStart(c), t))

\* ---------------------------------------------------------------- C2
\* C2: for every month M at or after the activity start month, the carry
\* until M+1 is the carry until M plus base(M) - spend(M), base(M) being the
\* base of the period stored for M.
C2_StepFromActivityStart ==
    \A c \in categories, m \in MonthStarts :
        (ActivityStart(c) # None /\ m >= ActivityStart(c)) =>
            LET r1 == cumulative_carry_until(budgets, purchases, c, m)
                r2 == cumulative_carry_until(r1.budgets, purchases, c,
                                             AddMonths(m, 1))
                stored == BudgetsAt(r2.budgets, c.id, m)
                base == IF stored # {}
                        THEN (CHOOSE r \in stored : TRUE).base_budget
                        ELSE ScheduledBase(c, m)
            IN  r2.carry = r1.carry + (base - SpendIn(c, m))

\* ---------------------------------------------------------------- C3
\* the months M of the claim: M+1 runs over the months of the clock
BackfillMonths == {t - DaysPerMonth : t \in MonthStarts \ {AddMonths(StartTime, MaxMonths)}}

\* C3: a call for M+3 in between does not change what a call for M+1
\* returns.
C3_MonotonicBackfill ==
    \A c \in categories, m \in BackfillMonths :
        LET before == cumulative_carry_until(budgets, purchases, c,
                                             AddMonths(m, 1))
            larger == cumulative_carry_until(budgets, purchases, c,
                                             AddMonths(m, 3))
        IN  cumulative_carry_until(larger.budgets, purchases, c,
                                   AddMonths(m, 1)).carry = before.carry

\* a category with purchases whose carry until M+1 is not 0 and for which
\* the call for M+3 creates rows the call for M+1 does not
C3_Witness ==
    \E c \in categories, m \in BackfillMonths :
        LET before == cumulative_carry_until(budgets, purchases, c,
                                             AddMonths(m, 1))
            larger == cumulative_carry_until(budgets, purchases, c,
                                             AddMonths(m, 3))
        IN  /\ PurchasesOf(c) # {}
            /\ before.carry # 0
            /\ before.budgets # budgets
            /\ larger.budgets # before.budgets

\* ---------------------------------------------------------------- C4
\* C4: two calls of current_month_summary for instants of the same month
\* return the same summary, the second creates no row, and one row exists
\* for the month.
C4_SummaryIdempotent ==
    \A c \in categories, n2 \in InstantsOf(MonthOf(now)) :
        LET r1 == current_month_summary(budgets, purchases, c, now)
            r2 == current_month_summary(r1.budgets, purchases, c, n2)
        IN  /\ r2.sum = r1.sum
            /\ r2.budgets = r1.budgets
            /\ RowCount(r2.budgets, c.id, MonthOf(now)) = 1

\* the first call creates the month's row and back-fills, with a carry and
\* a spend that are not 0
C4_Witness ==
    \E c \in categories :
        LET r1 == current_month_summary(budgets, purchases, c, now)
        IN  /\ BudgetsAt(budgets, c.id, MonthOf(now)) = {}
            /\ BagCardinality(r1.budgets) >= BagCardinality(budgets) + 2
            /\ r1.sum.carry_in # 0
            /\ r1.sum.spent # 0
            /\ now # MonthOf(now)

\* ---------------------------------------------------------------- C5
\* C5: a row created for a (category, month) that had none carries the base
\* of the most recent earlier period of the category, and the configured
\* default only when the category has no earlier period.
C5_CreatedRowCopiesLatestEarlierBase ==
    [][\A c \in categories :
         \A m \in {r.month_start : r \in BagToSet(budgets')} :
           (BudgetsAt(budgets, c.id, m) = {}) =>
               \A r \in BudgetsAt(budgets', c.id, m) :
                   r.base_budget = ScheduledBase(c, m)]_vars

\* ---------------------------------------------------------------- C6
\* C6: the table never holds two periods of one (category, month), and a
\* request whose insert was rejected left the row of the first writer.
C6_OnePeriodPerCategoryMonth ==
    /\ \A r \in BagToSet(budgets) :
           RowCount(budgets, r.category_id, r.month_start) = 1
    /\ \A w \in Workers :
           workers[w].pc = "failed" =>
               RowCount(budgets, workers[w].row.category_id,
                        workers[w].row.month_start) = 1

\* both requests read "no period" and the second insert was rejected
C6_Witness ==
    \E w \in Workers :
        /\ workers[w].pc = "failed"
        /\ workers[w].row.month_start > StartTime
        /\ workers[w].row \in BagToSet(budgets)

\* ---------------------------------------------------------------- C7
\* C7: with one period of base B at month M and no purchases, the carry
\* until M+k is k*B and the call leaves one period of base B at each of
\* the months M .. M+k-1.
C7_BasePropagates ==
    \A c \in categories :
        (Cardinality(PeriodsOf(c)) = 1 /\ PurchasesOf(c) = {}
             /\ RowCount(budgets, c.id, FirstBudgetTs(budgets, c.id)) = 1) =>
            LET only == CHOOSE r \in PeriodsOf(c) : TRUE
            IN  \A k \in 1..MaxMonths :
                    LET res == Carry(c, AddMonths(only.month_start, k))
                    IN  /\ res.carry = k * only.base_budget
                        /\ \A j \in 0..(k - 1) :
                              LET m == AddMonths(only.month_start, j)
                              IN  /\ BudgetsAt(res.budgets, c.id, m)
                                       = {BudgetRow(c.id, m, only.base_budget)}
                                  /\ RowCount(res.budgets, c.id, m) = 1

\* the one period's base is not the configured default
C7_Witness ==
    \E c \in categories :
        /\ Cardinality(PeriodsOf(c)) = 1
        /\ PurchasesOf(c) = {}
        /\ \E r \in PeriodsOf(c) :
               /\ r.base_budget # CfgDefault(c.name)
               /\ Carry(c, AddMonths(r.month_start, 2)).carry = 2 * r.base_budget
               /\ now > r.month_start

\* ---------------------------------------------------------------- C8
\* C8: for a category with no periods the configured default D is every
\* month's base: the summary of a month T has
\* effective = max(0, D + sum over the months before T, from the first
\* purchase's on, of D - spend), remaining = effective - spent and
\* over_by = max(0, -remaining).
C8_DefaultFoldsForward ==
    \A c \in categories, t \in MonthStarts :
        PeriodsOf(c) = {} =>
            LET D == CfgDefault(c.name)
                first == ActivityStart(c)
                k == IF first = None THEN 0 ELSE MonthsBetween(first, t)
                folded == (k * D) - SumAmounts(purchases,
                              {r \in PurchasesOf(c) : r.ts < t})
                s == current_month_summary(budgets, purchases, c, t).sum
            IN  /\ s.base = D
                /\ s.carry_in = folded
                /\ s.effective = (IF D + folded > 0 THEN D + folded ELSE 0)
                /\ s.remaining = s.effective - SpendIn(c, t)
                /\ s.over_by = (IF s.remaining < 0 THEN -s.remaining ELSE 0)

\* the scenario: default 400, 350 spent in the first month and 500 in the
\* second; the carry into the second month is 50, its effective budget 450,
\* remaining -50, over_by 50, and the third month's effective budget 350
C8_Witness ==
    \E c \in categories :
        LET m1 == MonthOf(StartTime)
            m2 == AddMonths(m1, 1)
            m3 == AddMonths(m1, 2)
            s2 == current_month_summary(budgets, purchases, c, m2).sum
            s3 == current_month_summary(budgets, purchases, c, m3).sum
        IN  /\ PeriodsOf(c) = {}
            /\ CfgDefault(c.name) = 400
            /\ SpendIn(c, m1) = 350
            /\ SpendIn(c, m2) = 500
            /\ s2.carry_in = 50
            /\ s2.effective = 450
            /\ s2.remaining = -50
            /\ s2.over_by = 50
            /\ s3.effective = 350
            /\ MonthOf(now) = m3

\* ---------------------------------------------------------------- C9
\* C9: the effective budget of a summary is base + carry_in when that is
\* positive and 0 otherwise, so never negative; carry_in is the carry
\* itself, not floored.
C9_EffectiveFlooredAtZero ==
    \A c \in categories, t \in {now} :
        LET r == current_month_summary(budgets, purchases, c, t)
            s == r.sum
        IN  /\ s.effective >= 0
            /\ s.effective = (IF s.base + s.carry_in > 0
                              THEN s.base + s.carry_in ELSE 0)
            /\ s.carry_in = cumulative_carry_until(r.budgets, purchases, c,
                                                   MonthOf(t)).carry

\* a summary of the current month with a negative base, a negative carry
\* and the effective budget floored to 0
C9_Witness ==
    \E c \in categories :
        LET s == current_month_summary(budgets, purchases, c, now).sum
        IN  /\ s.base < 0
            /\ s.carry_in < 0
            /\ s.effective = 0
            /\ BudgetsAt(budgets, c.id, MonthOf(now)) # {}

\* --------------------------------------------------------------- C10
\* C10: for a category with neither purchases nor periods the carry is 0
\* for every target month and the call leaves the tables as they were.
C10_NoActivityNoWalk ==
    \A c \in categories :
        (PurchasesOf(c) = {} /\ PeriodsOf(c) = {}) =>
            \A t \in MonthStarts :
                /\ Carry(c, t).carry = 0
                /\ Carry(c, t).budgets = budgets

\* such a category when the clock has reached the last month
C10_Witness ==
    \E c \in categories :
        /\ PurchasesOf(c) = {}
        /\ PeriodsOf(c) = {}
        /\ MonthOf(now) = AddMonths(StartTime, MaxMonths - 1)

\* ---------------------------------------------------------------- C11
\* the default arguments a caller may pass
DefaultArgs == {0, 400, -100}

\* C11: get_or_create_monthly_budget is idempotent after first creation:
\* once a period exists for (cat, m), a call with the same key and any
\* default d2 returns the stored row, writes nothing and leaves exactly one
\* row for (cat, m); the default is stored only by the call that creates
\* the row.
C11_GetOrCreateIdempotent ==
    \A c \in categories, m \in MonthStarts, d \in DefaultArgs, d2 \in DefaultArgs :
        LET first == get_or_create_monthly_budget(budgets, c, m, d)
            second == get_or_create_monthly_budget(first.budgets, c, m, d2)
        IN  /\ RowCount(first.budgets, c.id, m) = 1
            /\ second.budgets = first.budgets
            /\ second.mb = first.mb
            /\ second.mb \in BagToSet(first.budgets)
            /\ RowCount(budgets, c.id, m) = 0 => first.mb.base_budget = d
            /\ RowCount(budgets, c.id, m) > 0 =>
                   /\ first.budgets = budgets
                   /\ first.mb \in BagToSet(budgets)

\* a period whose stored base differs from every configured default exists
\* next to a month of the horizon that has no period yet
C11_Witness ==
    \E c \in categories :
        /\ \E r \in PeriodsOf(c) : r.base_budget \in BudgetVals
        /\ \E m \in MonthStarts : RowCount(budgets, c.id, m) = 0

\* ---------------------------------------------------------------- C12
\* C12: a purchase insert or a change of a purchase's category with an id
\* of no existing category is refused and the ledger stays as it was: no
\* purchase row ever references a missing category.
C12_NoPurchaseOfMissingCategory ==
    \A r \in BagToSet(purchases) : \E c \in categories : c.id = r.category_id

\* ---------------------------------------------------------------- C13
\* C13: the base of a period is changed only while the session is unlocked.
\* A step taken from a locked session (a POST /admin with a wrong PIN or
\* with base_<id> fields and no PIN among them) keeps every existing period
\* with its base, and a locked session becomes unlocked only by the POST of
\* the correct PIN, so that after a logout a save has no effect until the
\* PIN is entered again.
C13_BaseChangesOnlyWhileUnlocked ==
    [][/\ ~is_admin =>
              \A r \in BagToSet(budgets) :
                  CopiesIn(r, budgets') >= CopiesIn(r, budgets)
       /\ (~is_admin /\ is_admin') =>
              \E form \in Forms : Admin("POST", AdminPin, form)]_vars

\* the session is locked again after a base was saved
C13_Witness ==
    /\ ~is_admin
    /\ \E r \in BagToSet(budgets) : r.base_budget \in BudgetVals

\* ---------------------------------------------------------------- C14
\* the first instant of the year of dt
YearStartOf(dt) == dt - (dt % (MonthsPerYear * DaysPerMonth))

\* the amount the category's purchases of instant t add up to
AmountAt(c, t) ==
    SumAmounts(purchases, {r \in PurchasesOf(c) : r.ts = t})

\* the sum of AmountAt over the instants from a up to but excluding b
RECURSIVE AmountOver(_, _, _)
AmountOver(c, a, b) ==
    IF a >= b THEN 0 ELSE AmountAt(c, a) + AmountOver(c, a + 1, b)

\* the orders the categories S can be visited in
VisitOrders(S) ==
    {s \in [1..Cardinality(S) -> S] :
         \A i, j \in 1..Cardinality(S) : s[i] = s[j] => i = j}

\* the spent values of rows added up in the order s of their categories
RECURSIVE SpentInOrder(_, _, _)
SpentInOrder(rows, s, i) ==
    IF i > Len(s) THEN 0
    ELSE (CHOOSE x \in {rows[k] : k \in DOMAIN rows} : x.cat = s[i]).spent
         + SpentInOrder(rows, s, i + 1)

\* C14: ytd_totals(now, active_only) returns one row per category (the
\* active ones only when active_only is set), the spent of a row is the sum
\* of the category's purchases stamped in [Jan 1 of now's year, now), and
\* overall is the sum of the rows' spent values in whichever order the
\* categories are visited.
C14_YtdTotals ==
    \A active_only \in BOOLEAN :
        LET r == ytd_totals(categories, purchases, now, active_only)
            shown == IF active_only
                     THEN {c \in categories : c.is_active} ELSE categories
        IN  /\ Len(r.rows) = Cardinality(shown)
            /\ {r.rows[i].cat : i \in DOMAIN r.rows} = shown
            /\ \A i \in DOMAIN r.rows :
                   r.rows[i].spent =
                       AmountOver(r.rows[i].cat, YearStartOf(now), now)
            /\ \A s \in VisitOrders(shown) :
                   r.overall = SpentInOrder(r.rows, s, 1)

\* in January of the next year the ledger holds a purchase of the year
\* before and a purchase of this year, made before now, of a category that
\* is not active
C14_Witness ==
    /\ \E r \in BagToSet(purchases) : r.ts < YearStartOf(now)
    /\ \E c \in categories :
           /\ ~c.is_active
           /\ \E r \in PurchasesOf(c) : r.ts >= YearStartOf(now) /\ r.ts < now

\* ---------------------------------------------------------------- C15
\* the purchases stamped before the month-start t are the same before and
\* after the step
SameLedgerBefore(t) ==
    \A r \in BagToSet(purchases) \cup BagToSet(purchases') :
        r.ts < t => CopiesIn(r, purchases') = CopiesIn(r, purchases)

\* C15: cumulative_carry_until(cat, T) depends only on the months strictly
\* before T: a step that logs, edits or deletes purchases stamped in month
\* T or later, and leaves the periods alone, leaves the value of
\* cumulative_carry_until(cat, T) unchanged.
C15_CarryIgnoresMonthTAndLater ==
    [][\A c \in categories, t \in MonthStarts :
           (purchases' # purchases /\ budgets' = budgets /\ SameLedgerBefore(t))
               => cumulative_carry_until(budgets', purchases', c, t).carry
                      = cumulative_carry_until(budgets, purchases, c, t).carry]_vars

\* ---------------------------------------------------------------- C16
\* the month the walk of cumulative_carry_until starts at: the month of the
\* category's first purchase when it has one, of its earliest period
\* otherwise
WalkStartMonth(c) ==
    IF PurchasesOf(c) # {}
    THEN SetMin({MonthOf(r.ts) : r \in PurchasesOf(c)})
    ELSE SetMin({r.month_start : r \in PeriodsOf(c)})

\* the base of the nearest period of B strictly before month m, the
\* configured default when B has none
LastKnownBase(B, c, m) ==
    LET rows == {r \in BagToSet(B) :
                     r.category_id = c.id /\ r.month_start < m}
    IN  IF rows = {} THEN CfgDefault(c.name)
        ELSE (CHOOSE r \in rows :
                  \A q \in rows : q.month_start <= r.month_start).base_budget

\* C16: back-fill completeness: after cumulative_carry_until(cat, T) returns
\* for a category with some activity, every month from the walk's start
\* month up to but excluding T has exactly one persisted period, and each
\* row the call created carries the base of the nearest earlier period, or
\* the configured default when there is no earlier period.
C16_BackfillComplete ==
    \A c \in categories, t \in MonthStarts :
        (PurchasesOf(c) # {} \/ PeriodsOf(c) # {}) =>
            LET after == cumulative_carry_until(budgets, purchases, c, t).budgets
            IN  /\ \A m \in MonthStarts :
                       (WalkStartMonth(c) <= m /\ m < t)
                           => RowCount(after, c.id, m) = 1
                /\ \A r \in BagToSet(after) :
                       CopiesIn(r, after) > CopiesIn(r, budgets)
                           => /\ r.category_id = c.id
                              /\ r.base_budget
                                     = LastKnownBase(after, c, r.month_start)

\* a walk that creates the rows of two months from a saved base
C16_Witness ==
    \E c \in categories, t \in MonthStarts :
        LET after == cumulative_carry_until(budgets, purchases, c, t).budgets
        IN  /\ PurchasesOf(c) # {}
            /\ \E r, q \in BagToSet(after) :
                   /\ r.month_start < q.month_start
                   /\ CopiesIn(r, budgets) = 0 /\ CopiesIn(q, budgets) = 0
                   /\ r.base_budget \in BudgetVals
                   /\ q.base_budget \in BudgetVals

\* ---------------------------------------------------------------- C17
\* C17: no step of the carry walk, the summary, get_or_create_monthly_budget,
\* the purchase routes or the totals page changes the base of an existing
\* period or deletes a period.  A period whose row changes is changed by the
\* admin save of an unlocked session, belongs to the current month and to a
\* category of the submitted form, and still has its one row afterwards.
C17_OnlyAdminSaveChangesABase ==
    [][\A r \in BagToSet(budgets) :
           CopiesIn(r, budgets') < CopiesIn(r, budgets) =>
               /\ is_admin
               /\ r.month_start = MonthOf(now)
               /\ RowCount(budgets', r.category_id, r.month_start)
                      = RowCount(budgets, r.category_id, r.month_start)
               /\ \E pin \in Pins, form \in Forms :
                      /\ r.category_id \in DOMAIN form
                      /\ Admin("POST", pin, form)]_vars

\* a saved base in a later month next to an earlier period that kept the
\* configured default, with purchases in the ledger
C17_Witness ==
    \E c \in categories :
        /\ PurchasesOf(c) # {}
        /\ \E r, q \in PeriodsOf(c) :
               /\ r.month_start < q.month_start
               /\ r.base_budget = CfgDefault(c.name)
               /\ q.base_budget \in BudgetVals

\* ---------------------------------------------------------------- C18
\* the instants of the horizon, and the instant after its last
Instants == StartTime..(EndTime + 1)

\* the months next_month_start steps through from m up to the horizon's end
RECURSIVE SpendByMonth(_, _)
SpendByMonth(c, m) ==
    IF m > EndTime THEN 0
    ELSE month_spend_for_category(purchases, c.id, m, next_month_start(m))
         + SpendByMonth(c, next_month_start(m))

\* C18: month_spend_for_category(cat, start, end) is the sum of the
\* category's purchases with start <= ts < end, 0 when there is none; a
\* purchase stamped at the first instant of a month counts for that month
\* and not for the month before; over the consecutive months of a walk
\* every purchase is counted in exactly one month.
C18_HalfOpenSum ==
    \A c \in categories :
        /\ \A a, b \in Instants :
               month_spend_for_category(purchases, c.id, a, b)
                   = AmountOver(c, a, b)
        /\ \A m \in MonthStarts :
               month_spend_for_category(purchases, c.id, m, next_month_start(m))
                   = SpendIn(c, m)
        /\ SpendByMonth(c, StartTime)
               = SumAmounts(purchases, PurchasesOf(c))

\* a purchase at the first instant of a month after a purchase at the last
\* instant of the month before
C18_Witness ==
    \E c \in categories : \E r, q \in PurchasesOf(c) :
        /\ q.ts = MonthOf(q.ts)
        /\ r.ts = q.ts - 1

\* ---------------------------------------------------------------- C19
\* C19: in every summary remaining = effective - spent and
\* over_by = max(0, -remaining), so over_by > 0 exactly when
\* spent > effective; pct is spent / effective * 100 when effective > 0 and
\* 0 when effective <= 0, and its division never has the divisor 0.
C19_SummaryArithmetic ==
    \A c \in categories :
        LET s == current_month_summary(budgets, purchases, c, now).sum
        IN  /\ s.remaining = s.effective - s.spent
            /\ s.over_by = (IF s.remaining < 0 THEN -s.remaining ELSE 0)
            /\ (s.over_by > 0) <=> (s.spent > s.effective)
            /\ s.pct.den # 0
            /\ s.effective > 0 =>
                   s.pct.num * s.effective = (s.spent * 100) * s.pct.den
            /\ s.effective <= 0 => s.pct.num = 0

\* the floor makes effective exactly 0 in a month with spend
C19_Witness ==
    \E c \in categories :
        LET s == current_month_summary(budgets, purchases, c, now).sum
        IN  /\ s.base + s.carry_in < 0
            /\ s.effective = 0
            /\ s.spent > 0
====
